---- MODULE Spec2Model ----
(***************************************************************************)
(* supla_exporter: the poll / fetch / extract pipeline.                    *)
(*                                                                         *)
(*   parser.FetchAndParseWithPool, parser.worker, parser.FetchAndParse,    *)
(*   parser.ParseHTML, the deviceCount counter, main.updateMetrics and     *)
(*   metrics.UpdateMetrics.                                                *)
(*                                                                         *)
(* Text is a sequence of one-character strings, so that strings.Split,     *)
(* strings.Contains, strings.TrimSpace and the regular expressions of      *)
(* ParseHTML are computed on the characters; a field of a SuplaInfo is the *)
(* TLA+ string obtained by joining the characters.                         *)
(***************************************************************************)
EXTENDS Integers, Sequences, FiniteSets, Bags, TLC

(***************************************************************************)
(* Bounds of the model.                                                    *)
(***************************************************************************)
\* longest device list handed to FetchAndParseWithPool
MaxDevices == 2
\* largest worker count (config allows 1..100)
MaxWorkers == 2
\* goroutines of earlier cycles that have not yet returned when a cycle starts
MaxStale == 1
\* devices polled in one run of the exporter, over all its cycles
MaxPolled == 4
\* most marker sections in one generated span text
MaxSegs == 3

(***************************************************************************)
(* Characters and strings (Go: package strings, regexp, strconv).          *)
(***************************************************************************)
Digits == {"0", "1", "2", "3", "4", "5", "6", "7", "8", "9"}

HexDigits == Digits \cup {"A", "B", "C", "D", "E", "F", "a", "b", "c", "d", "e", "f"}

WhiteSpace == {" ", "\t", "\n", "\r"}

DigitVal(c) ==
    CASE c = "0" -> 0 [] c = "1" -> 1 [] c = "2" -> 2 [] c = "3" -> 3
      [] c = "4" -> 4 [] c = "5" -> 5 [] c = "6" -> 6 [] c = "7" -> 7
      [] c = "8" -> 8 [] c = "9" -> 9

DigitChar(d) ==
    CASE d = 0 -> "0" [] d = 1 -> "1" [] d = 2 -> "2" [] d = 3 -> "3"
      [] d = 4 -> "4" [] d = 5 -> "5" [] d = 6 -> "6" [] d = 7 -> "7"
      [] d = 8 -> "8" [] d = 9 -> "9"

\* string(chars): the Go string holding these characters
RECURSIVE Join(_)
Join(s) == IF s = <<>> THEN "" ELSE Head(s) \o Join(Tail(s))

\* fmt's %d of a non-negative int
RECURSIVE Itoa(_)
Itoa(n) == IF n < 10 THEN DigitChar(n) ELSE Itoa(n \div 10) \o DigitChar(n % 10)

\* strings.Index, 1-based; 0 when sep does not occur in s
Index(s, sep) ==
    LET hits == {i \in 1..(Len(s) - Len(sep) + 1) : SubSeq(s, i, i + Len(sep) - 1) = sep}
    IN  IF hits = {} THEN 0 ELSE CHOOSE i \in hits : \A j \in hits : i <= j

\* strings.Contains
Contains(s, sep) == Index(s, sep) # 0

\* strings.Split with a non-empty separator
RECURSIVE Split(_, _)
Split(s, sep) ==
    LET i == Index(s, sep)
    IN  IF i = 0 THEN <<s>>
        ELSE <<SubSeq(s, 1, i - 1)>> \o Split(SubSeq(s, i + Len(sep), Len(s)), sep)

RECURSIVE TrimLeft(_)
TrimLeft(s) == IF s # <<>> /\ Head(s) \in WhiteSpace THEN TrimLeft(Tail(s)) ELSE s

RECURSIVE TrimRight(_)
TrimRight(s) ==
    IF s # <<>> /\ s[Len(s)] \in WhiteSpace THEN TrimRight(SubSeq(s, 1, Len(s) - 1)) ELSE s

\* strings.TrimSpace
TrimSpace(s) == TrimRight(TrimLeft(s))

\* regexp `v\d`, FindStringIndex: 1-based start of the leftmost match, 0 if none
FindVDigit(s) ==
    LET hits == {i \in 1..(Len(s) - 1) : s[i] = "v" /\ s[i + 1] \in Digits}
    IN  IF hits = {} THEN 0 ELSE CHOOSE i \in hits : \A j \in hits : i <= j

\* regexp `([0-9A-Fa-f]{2}[:-]){5}([0-9A-Fa-f]{2})` matching at position i
MacAt(s, i) ==
    /\ i + 16 <= Len(s)
    /\ \A k \in 0..16 :
          IF k % 3 = 2 THEN s[i + k] \in {":", "-"} ELSE s[i + k] \in HexDigits

\* macRegex.FindString: the leftmost match, the empty text if none
FindMAC(s) ==
    LET hits == {i \in 1..Len(s) : MacAt(s, i)}
    IN  IF hits = {} THEN <<>>
        ELSE LET i == CHOOSE i \in hits : \A j \in hits : i <= j
             IN  SubSeq(s, i, i + 16)

\* regexp `(?i)kb?$`, ReplaceAllString(s, ""): a final "kb" or a final "k" goes
StripKb(s) ==
    LET n == Len(s)
    IN  IF n >= 2 /\ s[n - 1] \in {"k", "K"} /\ s[n] \in {"b", "B"} THEN SubSeq(s, 1, n - 2)
        ELSE IF n >= 1 /\ s[n] \in {"k", "K"} THEN SubSeq(s, 1, n - 1)
        ELSE s

RECURSIVE DigitsValue(_)
DigitsValue(s) ==
    IF s = <<>> THEN 0 ELSE 10 * DigitsValue(SubSeq(s, 1, Len(s) - 1)) + DigitVal(s[Len(s)])

AllDigits(s) == \A i \in 1..Len(s) : s[i] \in Digits

RECURSIVE StripZeros(_)
StripZeros(s) ==
    IF s # <<>> /\ s[Len(s)] = "0" THEN StripZeros(SubSeq(s, 1, Len(s) - 1)) ELSE s

\* A float64 holding a decimal: the value m / 10^e, e the least possible.
Float(m, e) == [m |-> m, e |-> e]

\* strconv.ParseFloat(s, 64) for the decimal syntax [+-]digits[.digits]; the
\* pages of the model hold no exponent, hexadecimal, "inf" or "nan" text.
\* Any other character, a space included, is a syntax error.
ParseFloat(s) ==
    LET neg   == s # <<>> /\ Head(s) = "-"
        body  == IF s # <<>> /\ Head(s) \in {"+", "-"} THEN Tail(s) ELSE s
        parts == Split(body, <<".">>)
        int   == parts[1]
        frac  == IF Len(parts) = 2 THEN StripZeros(parts[2]) ELSE <<>>
        good  == /\ Len(parts) <= 2
                 /\ AllDigits(int)
                 /\ Len(parts) = 2 => AllDigits(parts[2])
                 /\ Len(int) + (IF Len(parts) = 2 THEN Len(parts[2]) ELSE 0) > 0
        mag   == DigitsValue(int \o frac)
    IN  IF good
        THEN [ok |-> TRUE, val |-> Float(IF neg THEN 0 - mag ELSE mag, Len(frac))]
        ELSE [ok |-> FALSE, val |-> Float(0, 0)]

(***************************************************************************)
(* Device pages.  A page is what goquery sees of the document: the texts   *)
(* of its h1 elements and the texts of its span elements, in document      *)
(* order.  A span text is a sequence of sections, each a marker followed   *)
(* by a value; a page is described by the names of its sections.           *)
(***************************************************************************)
MarkLastState == <<"L","A","S","T"," ","S","T","A","T","E",":">>
MarkFirmware == <<"F","i","r","m","w","a","r","e",":">>
MarkGUID == <<"G","U","I","D",":">>
MarkMAC == <<"M","A","C",":">>
MarkFreeMem == <<"F","r","e","e"," ","M","e","m",":">>
MarkMode == <<"M","o","d","e",":">>

ValReady == <<" ","R","e","a","d","y"," ">>
ValFirmware == <<" ","G","G"," ","v","1",".","2",".","3"," ">>
ValGUID == <<" ","A","B","C","1","2","3"," ">>
ValMAC == <<" ","A","A",":","B","B",":","C","C",":","D","D",":","E","E",":","F","F"," ">>
ValMem == <<" ","2","8",".","3","4","k","B"," ">>
ValMode == <<" ","N","O","R","M","A","L">>
ValKitchen == <<"K","i","t","c","h","e","n">>
\* a number and its suffix with a space between them
ValMemSpaced == <<" ","1","5"," ","K","B"," ">>
\* a whole number with the short suffix
ValMemShort == <<" ","5","1","2","k"," ">>
\* no number at all
ValMemText == <<" ","n","/","a"," ">>
\* a firmware text with no "v<digit>" in it
ValFirmwarePlain == <<" ","2",".","0","-","b","e","t","a"," ">>
ValGarage == <<"G","a","r","a","g","e">>
\* a heading laid out on a line of its own
ValKitchenPadded == <<"\n"," ","K","i","t","c","h","e","n"," ","\n">>

SegNames == {"state", "firmware", "guid", "mac", "mem", "mode"}

SegMarker(g) ==
    CASE g = "state" -> MarkLastState [] g = "firmware" -> MarkFirmware
      [] g = "guid" -> MarkGUID [] g = "mac" -> MarkMAC
      [] g = "mem" -> MarkFreeMem [] g = "mode" -> MarkMode
      [] g \in {"memspaced", "memshort", "memtext"} -> MarkFreeMem
      [] g = "firmwareplain" -> MarkFirmware

SegValue(g) ==
    CASE g = "state" -> ValReady [] g = "firmware" -> ValFirmware
      [] g = "guid" -> ValGUID [] g = "mac" -> ValMAC
      [] g = "mem" -> ValMem [] g = "mode" -> ValMode
      [] g = "memspaced" -> ValMemSpaced [] g = "memshort" -> ValMemShort
      [] g = "memtext" -> ValMemText [] g = "firmwareplain" -> ValFirmwarePlain

HeadingText(h) ==
    CASE h = "kitchen" -> ValKitchen [] h = "garage" -> ValGarage
      [] h = "padded" -> ValKitchenPadded

\* the text of a span made of the sections segs
RECURSIVE SpanText(_)
SpanText(segs) ==
    IF segs = <<>> THEN <<>>
    ELSE SegMarker(Head(segs)) \o SegValue(Head(segs)) \o SpanText(Tail(segs))

\* goquery Selection.Text() of doc.Find("h1"): the texts of all matches, combined
RECURSIVE HeadingsText(_)
HeadingsText(hs) ==
    IF hs = <<>> THEN <<>> ELSE HeadingText(Head(hs)) \o HeadingsText(Tail(hs))

Page(hs, spans) == [h1 |-> hs, spans |-> spans]

\* Scenario B of the specification: every section, in the device's order
FullSpan == <<"state", "firmware", "guid", "mac", "mem", "mode">>

PageFull == Page(<<"kitchen">>, <<FullSpan>>)

\* the same sections in two spans
PageTwoSpans == Page(<<"kitchen">>, <<<<"state", "firmware", "guid", "mac">>, <<"mem", "mode">>>>)

\* a heading and nothing else
PageBare == Page(<<"kitchen">>, <<>>)

\* no heading, no span
PageEmpty == Page(<<>>, <<>>)

\* "LAST STATE:" with no "Firmware:" after it
PageNoFirmware == Page(<<"kitchen">>, <<<<"state", "guid", "mac">>>>)

\* only the memory block
PageMemOnly == Page(<<"kitchen">>, <<<<"mem", "mode">>>>)

\* only the state block
PageStateOnly == Page(<<"kitchen">>, <<<<"state", "firmware", "guid", "mac">>>>)

(***************************************************************************)
(* parser.SuplaInfo and parser.ParseHTML.                                  *)
(***************************************************************************)
\* the zero value &SuplaInfo{}
ZeroInfo ==
    [Name |-> "", State |-> "", Firmware |-> "", GUID |-> "", MAC |-> "", Mode |-> "",
     FreeMem |-> Float(0, 0), Up |-> FALSE, URL |-> ""]

\* sections := []string{"LAST STATE:", "Firmware:", "GUID:", "MAC:"}
Sections == <<MarkLastState, MarkFirmware, MarkGUID, MarkMAC>>

\* the firmware text kept as it stands
SanitizeFirmwareKeep(value) == value

\* info.Firmware = value, cut to start at the first "v<digit>"
SanitizeFirmware(value) ==
    LET loc == FindVDigit(value)
    IN  IF loc # 0 THEN SubSeq(value, loc, Len(value)) ELSE value

\* One round of `for i, section := range sections` on the span text.
\* strings.Split(text, section)[1] is an index out of range when the text
\* does not hold the section: the goroutine panics.
SectionStep(r, text, i) ==
    IF r.panic THEN r
    ELSE IF i < Len(Sections)
    THEN LET pieces == Split(text, Sections[i])
         IN  IF Len(pieces) < 2 THEN [r EXCEPT !.panic = TRUE]
             ELSE LET value == TrimSpace(Split(pieces[2], Sections[i + 1])[1])
                  IN  CASE i = 1 -> [r EXCEPT !.info.State = Join(value)]
                        [] i = 2 -> [r EXCEPT !.info.Firmware = Join(SanitizeFirmware(value))]
                        [] i = 3 -> [r EXCEPT !.info.GUID = Join(value)]
    ELSE LET parts == Split(text, Sections[i])
         IN  IF Len(parts) > 1
             THEN LET match == FindMAC(TrimSpace(parts[2]))
                  IN  IF match # <<>> THEN [r EXCEPT !.info.MAC = Join(match)] ELSE r
             ELSE r

\* if strings.Contains(text, "LAST STATE:") { ... }
StateBlock(r, text) ==
    IF Contains(text, MarkLastState)
    THEN SectionStep(SectionStep(SectionStep(SectionStep(r, text, 1), text, 2), text, 3), text, 4)
    ELSE r

\* if strings.Contains(text, "Free Mem:") { ... }
MemBlock(r, text) ==
    IF ~r.panic /\ Contains(text, MarkFreeMem)
    THEN LET parts      == Split(text, MarkFreeMem)[2]
             memAndMode == Split(parts, MarkMode)
             memStr     == StripKb(TrimSpace(memAndMode[1]))
             freeMem    == ParseFloat(memStr)
             r1         == IF freeMem.ok THEN [r EXCEPT !.info.FreeMem = freeMem.val] ELSE r
         IN  IF Len(memAndMode) > 1
             THEN [r1 EXCEPT !.info.Mode = Join(TrimSpace(memAndMode[2]))]
             ELSE r1
    ELSE r

\* the callback of doc.Find("span").Each on one span
EachSpan(r, segs) == MemBlock(StateBlock(r, SpanText(segs)), SpanText(segs))

\* info := &SuplaInfo{}; info.Name = doc.Find("h1").Text().  NewDocumentFromReader
\* reads a strings.Reader, which never fails, so err is nil.
ParseStart(page) ==
    [panic |-> FALSE, err |-> FALSE,
     info |-> [ZeroInfo EXCEPT !.Name = Join(HeadingsText(page.h1))]]

RECURSIVE EachFrom(_, _, _)
EachFrom(r, spans, k) ==
    IF k > Len(spans) \/ r.panic THEN r ELSE EachFrom(EachSpan(r, spans[k]), spans, k + 1)

\* ParseHTML(content): [panic, err, info]
ParseHTML(page) == EachFrom(ParseStart(page), page.spans, 1)

(***************************************************************************)
(* The program state.                                                      *)
(***************************************************************************)
VARIABLES
    devices,      \* the []config.Device of the configuration (username and password
                  \* only travel in the request: the device's answer is the environment's)
    numWorkers,   \* cfg.Global.Workers
    wide,         \* whether the devices answer from the wide or the narrow set of answers
    plain,        \* whether the devices answer from the plain set: every fetch returns
    deviceCount,  \* parser.deviceCount
    pc,           \* where updateMetrics / FetchAndParseWithPool stands
    idx,          \* the index of the loop it is in
    upc,          \* the statement of metrics.UpdateMetrics it is at
    logged,       \* devices_processed of the last completed updateMetrics
    polled,       \* devices handed to the pool since the exporter started
    active,       \* calls of updateMetrics that have not returned
    ticker,       \* the time.Ticker of main: whether it runs, and the ticks in ticker.C
    jobs,         \* the jobs channel's buffer
    closed,       \* close(jobs) has happened
    results,      \* the results channel's buffer
    infos,        \* the infos slice
    wk,           \* the live worker goroutines: a bag of frames (goroutines have no name)
    crashed,      \* a goroutine panicked: the process is gone
    reg,          \* the Prometheus registry
    ret,          \* the worker's round that ended in this step, if one did: the device
                  \* taken, the requests and body reads made, the answers, the record sent
    px,           \* a call of ParseHTML on its own
    cf            \* main's search for its configuration file

vars == <<devices, numWorkers, wide, plain, deviceCount, pc, idx, upc, logged, polled, active, ticker,
          jobs, closed, results, infos, wk, crashed, reg, ret, px, cf>>

cfgVars == <<devices, numWorkers, wide, plain>>

poolVars == <<jobs, closed, results, infos, wk>>

mainVars == <<pc, idx, upc, logged, polled, active, ticker>>


Device(u) == [URL |-> u]

NoDevice == Device("")

\* url.Parse inside http.NewRequest: the error text, "" when the url parses
UrlParseError(u) == IF u = ":bad" THEN "missing protocol scheme" ELSE ""

\* http.NewRequest("GET", device.URL, nil): the error's text, "" for none
NewRequestError(device) ==
    IF UrlParseError(device.URL) = "" THEN ""
    ELSE "parse \"" \o device.URL \o "\": " \o UrlParseError(device.URL)

(***************************************************************************)
(* What a device answers.                                                  *)
(***************************************************************************)
Statuses == {200, 401, 403, 404, 500, 503}

\* read: io.ReadAll returns the body ("ok"), fails with an error whose text holds
\* "malformed chunked encoding" ("chunked"), or fails otherwise ("err")
Resp(status, read, page) == [fail |-> FALSE, status |-> status, read |-> read, page |-> page]

\* client.Do returns an error: connection refused, DNS failure, timeout
TransportFailure == [fail |-> TRUE, status |-> 0, read |-> "none", page |-> PageEmpty]

FetchPages ==
    {PageFull, PageTwoSpans, PageBare, PageEmpty, PageNoFirmware, PageMemOnly, PageStateOnly}

PoolPages == {PageFull, PageNoFirmware}

EnvStatuses == IF wide THEN Statuses ELSE IF plain THEN {200} ELSE {200, 404, 503}

EnvPages == IF wide THEN FetchPages ELSE IF plain THEN {PageFull} ELSE PoolPages

\* the ways the read of a body fails
EnvReadFailures == IF plain THEN {"chunked"} ELSE {"chunked", "err"}

EnvRetryStatuses == IF wide THEN {200, 404, 503} ELSE {404}

EnvRetryPages == IF wide THEN {PageFull, PageBare, PageNoFirmware} ELSE {PageFull}

\* the answers to the first request; a body of a non-200 answer is there to be read
FirstAnswers ==
    {TransportFailure}
      \cup {Resp(200, "ok", p) : p \in EnvPages}
      \cup {Resp(200, r, PageEmpty) : r \in EnvReadFailures}
      \cup {Resp(s, "ok", PageFull) : s \in EnvStatuses \ {200}}

\* the answers to the request with Accept-Encoding: identity
RetryAnswers ==
    {TransportFailure}
      \cup {Resp(s, "ok", p) : s \in EnvRetryStatuses, p \in EnvRetryPages}
      \cup {Resp(s, r, PageEmpty) : s \in EnvRetryStatuses, r \in EnvReadFailures}

(***************************************************************************)
(* parser.FetchAndParse.                                                   *)
(***************************************************************************)
\* a read and a write that are not one step: an increment that meets another is lost
RacyAdd(v, delta) == IF v > 0 THEN v ELSE v + delta

\* atomic.AddInt64(&deviceCount, delta)
AtomicAddInt64(v, delta) == v + delta

\* a load in the place of the swap
LoadWithoutReset(v) == [ret |-> v, val |-> v]

\* atomic.SwapInt64(&deviceCount, 0): the value returned and the value left
GetAndResetDeviceCount(v) == [ret |-> v, val |-> 0]

\* atomic.LoadInt64(&deviceCount)
GetDeviceCount(v) == v

\* client.Do failed
TransportRecord(device) == [ZeroInfo EXCEPT !.URL = device.URL]

\* a Timeout record that keeps the name read from the device before
TimeoutRecordKeepsName(device) ==
    [ZeroInfo EXCEPT !.URL = device.URL, !.State = "Timeout", !.Mode = "ERROR", !.Name = "Kitchen"]

\* the body could not be read, or the second request failed
TimeoutRecord(device) == [ZeroInfo EXCEPT !.URL = device.URL, !.State = "Timeout", !.Mode = "ERROR"]

\* ParseHTML returned an error
ParseErrorRecord(device, err) ==
    [ZeroInfo EXCEPT !.URL = device.URL, !.State = "Error parsing HTML: " \o err]

\* the record of ParseHTML marked up, its url never set
UpRecordNoURL(device, info) == [info EXCEPT !.Up = TRUE]

\* info.URL = device.URL; info.Up = true
UpRecord(device, info) == [info EXCEPT !.URL = device.URL, !.Up = TRUE]

\* the switch without its default case's Name, and with 403 answered as 401
StatusSwitchSlips(device, status) ==
    CASE status = 200 -> <<>>
      [] status \in {401, 403} ->
            <<[ZeroInfo EXCEPT !.URL = device.URL, !.State = "Unauthorized - check credentials"]>>
      [] status = 404 ->
            <<[ZeroInfo EXCEPT !.URL = device.URL, !.State = "Not found - check URL"]>>
      [] status = 500 ->
            <<[ZeroInfo EXCEPT !.URL = device.URL, !.State = "Internal server error"]>>
      [] OTHER ->
            <<[ZeroInfo EXCEPT !.URL = device.URL, !.State = "HTTP error " \o Itoa(status)]>>

\* switch resp.StatusCode: the record returned, <<>> when the case falls through
StatusSwitch(device, status) ==
    CASE status = 200 -> <<>>
      [] status = 401 ->
            <<[ZeroInfo EXCEPT !.URL = device.URL, !.State = "Unauthorized - check credentials"]>>
      [] status = 403 ->
            <<[ZeroInfo EXCEPT !.URL = device.URL, !.State = "Forbidden - access denied"]>>
      [] status = 404 ->
            <<[ZeroInfo EXCEPT !.URL = device.URL, !.State = "Not found - check URL"]>>
      [] status = 500 ->
            <<[ZeroInfo EXCEPT !.URL = device.URL, !.State = "Internal server error"]>>
      [] OTHER ->
            <<[ZeroInfo EXCEPT !.Name = device.URL, !.URL = device.URL,
                               !.State = "HTTP error " \o Itoa(status)]>>

\* how a stretch of FetchAndParse ends: it returns info, it goes on to the second
\* request, or it panics; reads counts the io.ReadAll calls made so far
Return(info, reads) == [next |-> "return", info |-> <<info>>, reads |-> reads]

\* info, err := ParseHTML(string(body)) and what follows it
Parsed(device, page, reads) ==
    LET r == ParseHTML(page)
    IN  IF r.panic THEN [next |-> "panic", info |-> <<>>, reads |-> reads]
        ELSE IF r.err THEN Return(ParseErrorRecord(device, "error parsing HTML"), reads)
        ELSE Return(UpRecord(device, r.info), reads)

\* the second request made after any failure of the body read
FirstResponseRetryAny(device, resp) ==
    IF resp.fail THEN Return(TransportRecord(device), 0)
    ELSE LET sw == StatusSwitch(device, resp.status)
         IN  IF sw # <<>> THEN Return(sw[1], 0)
             ELSE IF resp.read = "ok" THEN Parsed(device, resp.page, 1)
             ELSE [next |-> "retry", info |-> <<>>, reads |-> 1]

\* from the return of the first client.Do to the return or to the second request
FirstResponse(device, resp) ==
    IF resp.fail THEN Return(TransportRecord(device), 0)
    ELSE LET sw == StatusSwitch(device, resp.status)
         IN  IF sw # <<>> THEN Return(sw[1], 0)
             ELSE CASE resp.read = "ok" -> Parsed(device, resp.page, 1)
                    [] resp.read = "chunked" -> [next |-> "retry", info |-> <<>>, reads |-> 1]
                    [] OTHER -> Return(TimeoutRecord(device), 1)

\* from the return of the second client.Do to the return
RetryResponse(device, resp) ==
    IF resp.fail THEN Return(TimeoutRecord(device), 1)
    ELSE IF resp.read = "ok" THEN Parsed(device, resp.page, 2)
    ELSE Return(TimeoutRecord(device), 2)

(***************************************************************************)
(* parser.worker.                                                          *)
(***************************************************************************)
\* a goroutine's frame: the device it took, the requests it made, the answers it
\* got, the body reads it made and the record it sends
Frame(p, device) ==
    [pc |-> p, device |-> device, reqs |-> 0, reads |-> 0,
     resp1 |-> <<>>, resp2 |-> <<>>, out |-> <<>>]

\* a goroutine waiting in `range jobs` on this cycle's channel
Waiting == Frame("recv", NoDevice)

\* a goroutine waiting in `range jobs` on the closed, empty channel of an earlier cycle
Stale == Frame("stale", NoDevice)

Put(bag, f) == bag (+) SetToBag({f})

Take(bag, f) == bag (-) SetToBag({f})

\* the goroutines at place p
At(p) == {f \in BagToSet(wk) : f.pc = p}

\* &SuplaInfo{URL: device.URL, Up: false, State: fmt.Sprintf("Error: %v", err)}
WorkerErrorRecord(device, err) ==
    [ZeroInfo EXCEPT !.URL = device.URL, !.State = "Error: " \o err]

\* workers that share one lock around the fetch: a job is taken only when no
\* fetch is outstanding
WorkerRecvSerial ==
    /\ ~crashed
    /\ BagIn(Waiting, wk)
    /\ jobs # <<>>
    /\ At("call") \cup At("do") \cup At("retry") = {}
    /\ wk' = Put(Take(wk, Waiting), Frame("call", Head(jobs)))
    /\ jobs' = Tail(jobs)
    /\ ret' = <<>>
    /\ UNCHANGED <<cfgVars, deviceCount, mainVars, closed, results, infos, crashed, reg, px, cf>>

\* for device := range jobs: a job is there
WorkerRecv ==
    /\ ~crashed
    /\ BagIn(Waiting, wk)
    /\ jobs # <<>>
    /\ wk' = Put(Take(wk, Waiting), Frame("call", Head(jobs)))
    /\ jobs' = Tail(jobs)
    /\ ret' = <<>>
    /\ UNCHANGED <<cfgVars, deviceCount, mainVars, closed, results, infos, crashed, reg, px, cf>>

\* for device := range jobs: the channel is closed and empty, the goroutine returns
WorkerExit ==
    /\ ~crashed
    /\ \E f \in At("recv") \cup At("stale") :
          /\ f.pc = "recv" => (jobs = <<>> /\ closed)
          /\ wk' = Take(wk, f)
    /\ ret' = <<>>
    /\ UNCHANGED <<cfgVars, deviceCount, mainVars, jobs, closed, results, infos, crashed, reg, px, cf>>

\* FetchAndParse up to the first client.Do: the counter, then the request.  With
\* an error from http.NewRequest the worker sends its own record and goes on.
FetchBegin(f) ==
    /\ ~crashed
    /\ f.pc = "call"
    /\ deviceCount' = AtomicAddInt64(deviceCount, 1)
    /\ LET err == NewRequestError(f.device)
       IN  IF err # ""
           THEN LET info == WorkerErrorRecord(f.device, "error creating request: " \o err)
                IN  /\ results' = Append(results, info)
                    /\ ret' = <<[f EXCEPT !.out = <<info>>]>>
                    /\ wk' = Put(Take(wk, f), Waiting)
           ELSE /\ wk' = Put(Take(wk, f), [f EXCEPT !.pc = "do", !.reqs = 1])
                /\ ret' = <<>>
                /\ UNCHANGED results
    /\ UNCHANGED <<cfgVars, mainVars, jobs, closed, infos, crashed, reg, px, cf>>

\* what the worker does with the way a stretch of FetchAndParse ended
WorkerStep(f, resp, end, second) ==
    LET f0 == IF second THEN [f EXCEPT !.resp2 = <<resp>>] ELSE [f EXCEPT !.resp1 = <<resp>>]
        f1 == [f0 EXCEPT !.reads = end.reads]
    IN  CASE end.next = "return" ->
               /\ results' = Append(results, end.info[1])
               /\ ret' = <<[f1 EXCEPT !.out = end.info]>>
               /\ wk' = Put(Take(wk, f), Waiting)
               /\ UNCHANGED crashed
          [] end.next = "retry" ->
               /\ wk' = Put(Take(wk, f), [f1 EXCEPT !.pc = "retry", !.reqs = @ + 1])
               /\ ret' = <<>>
               /\ UNCHANGED <<results, crashed>>
          [] end.next = "panic" ->
               /\ wk' = Put(Take(wk, f), [f1 EXCEPT !.pc = "panic"])
               /\ crashed' = TRUE
               /\ ret' = <<>>
               /\ UNCHANGED results

\* the first client.Do returns
FetchRespond(f) ==
    /\ ~crashed
    /\ f.pc = "do"
    /\ \E resp \in FirstAnswers : WorkerStep(f, resp, FirstResponse(f.device, resp), FALSE)
    /\ UNCHANGED <<cfgVars, deviceCount, mainVars, jobs, closed, infos, reg, px, cf>>

\* the second client.Do returns
FetchRetry(f) ==
    /\ ~crashed
    /\ f.pc = "retry"
    /\ \E resp \in RetryAnswers : WorkerStep(f, resp, RetryResponse(f.device, resp), TRUE)
    /\ UNCHANGED <<cfgVars, deviceCount, mainVars, jobs, closed, infos, reg, px, cf>>

(***************************************************************************)
(* metrics.UpdateMetrics.  A gauge vector is the set of its series, each   *)
(* <<label values, value>>; the url is the first label of every vector.    *)
(***************************************************************************)
ErrorValue == "ERROR"

UnknownValue == "UNKNOWN"

getOrDefault(value, defaultValue) == IF value = "" THEN defaultValue ELSE value

\* a Set that leaves the sample the series had
WithLabelValuesAdd(vec, labels, v) == vec \cup {<<labels, v>>}

\* vec.WithLabelValues(labels...).Set(v)
WithLabelValuesSet(vec, labels, v) == {x \in vec : x[1] # labels} \cup {<<labels, v>>}

\* a clean-up that removes nothing
DeleteNothing(vec, url) == vec

\* vec.DeletePartialMatch(prometheus.Labels{"url": url})
DeletePartialMatch(vec, url) == {x \in vec : x[1][1] # url}

EmptyRegistry ==
    [up |-> {}, info |-> {}, state |-> {}, network |-> {}, firmware |-> {}, memory |-> {},
     count |-> 0]

\* the statements of UpdateMetrics, one registry call each
UpStatements == 11

\* statement k of UpdateMetrics(info) on the registry r; count is deviceCount
UpdateMetricsStatement(r, info, k, count) ==
    LET name == getOrDefault(info.Name, UnknownValue)
    IN  CASE k = 0 -> [r EXCEPT !.up = WithLabelValuesSet(@, <<info.URL>>, IF info.Up THEN 1 ELSE 0)]
          [] k = 1 -> [r EXCEPT !.info = DeletePartialMatch(@, info.URL)]
          [] k = 2 -> [r EXCEPT !.state = DeletePartialMatch(@, info.URL)]
          [] k = 3 -> [r EXCEPT !.network = DeletePartialMatch(@, info.URL)]
          [] k = 4 -> [r EXCEPT !.firmware = DeletePartialMatch(@, info.URL)]
          [] k = 5 -> [r EXCEPT !.memory = DeletePartialMatch(@, info.URL)]
          [] k = 6 -> [r EXCEPT !.info = WithLabelValuesSet(@, <<info.URL, name>>, 1)]
          [] k = 7 -> [r EXCEPT !.state = WithLabelValuesSet(@,
                            <<info.URL, getOrDefault(info.State, UnknownValue)>>, 1)]
          [] k = 8 -> [r EXCEPT !.network = WithLabelValuesSet(@,
                            <<info.URL, getOrDefault(info.MAC, UnknownValue)>>, 1)]
          [] k = 9 -> [r EXCEPT !.firmware = WithLabelValuesSet(@,
                            <<info.URL, getOrDefault(info.Firmware, UnknownValue), name>>, 1)]
          [] k = 10 -> IF info.FreeMem.m > 0
                       THEN [r EXCEPT !.memory = WithLabelValuesSet(@, <<info.URL, name>>, info.FreeMem)]
                       ELSE r
          [] k = 11 -> [r EXCEPT !.count = GetDeviceCount(count)]

\* UpdateMetrics without its early return for a down record
NextStatementNoReturn(info, k) == IF k = UpStatements THEN -1 ELSE k + 1

\* if upValue == 0 { return }: the statement after statement k, -1 for the return
NextStatement(info, k) ==
    IF k = 0 /\ ~info.Up THEN -1 ELSE IF k = UpStatements THEN -1 ELSE k + 1

(***************************************************************************)
(* main.updateMetrics and parser.FetchAndParseWithPool.                    *)
(***************************************************************************)
\* parser.GetAndResetDeviceCount() at the head of updateMetrics
CycleReset ==
    /\ ~crashed
    /\ pc = "reset"
    /\ deviceCount' = GetAndResetDeviceCount(deviceCount).val
    /\ active' = active + 1
    /\ pc' = "spawn"
    /\ ret' = <<>>
    /\ UNCHANGED <<cfgVars, idx, upc, logged, polled, ticker, poolVars, crashed, reg, px, cf>>

\* jobs, results := make(chan ...); go worker(jobs, results), numWorkers times.
\* The goroutines of the cycle before that have not returned yet stay behind, on
\* the channel of that cycle.
PoolStart ==
    /\ ~crashed
    /\ pc = "spawn"
    /\ LET behind == CopiesIn(Stale, wk) + CopiesIn(Waiting, wk)
       IN  /\ behind <= MaxStale
           /\ wk' = [f \in {Waiting} \cup (IF behind > 0 THEN {Stale} ELSE {}) |->
                        IF f = Waiting THEN numWorkers ELSE behind]
    /\ jobs' = <<>>
    /\ closed' = FALSE
    /\ results' = <<>>
    /\ infos' = <<>>
    /\ pc' = "send"
    /\ idx' = 1
    /\ polled' = polled + Len(devices)
    /\ ret' = <<>>
    /\ UNCHANGED <<cfgVars, deviceCount, upc, logged, active, ticker, crashed, reg, px, cf>>

\* jobs <- device: the buffer holds len(devices), the send never waits
PoolSend ==
    /\ ~crashed
    /\ pc = "send"
    /\ idx <= Len(devices)
    /\ jobs' = Append(jobs, devices[idx])
    /\ idx' = idx + 1
    /\ ret' = <<>>
    /\ UNCHANGED <<cfgVars, deviceCount, pc, upc, logged, polled, active, ticker, closed, results,
                   infos, wk,
                   crashed, reg, px, cf>>

\* the sends done and the channel left open
PoolCloseForgotten ==
    /\ ~crashed
    /\ pc = "send"
    /\ idx > Len(devices)
    /\ pc' = "collect"
    /\ idx' = 0
    /\ ret' = <<>>
    /\ UNCHANGED <<cfgVars, deviceCount, upc, logged, polled, active, ticker, jobs, closed, results,
                   infos, wk, crashed, reg, px, cf>>

\* close(jobs)
PoolClose ==
    /\ ~crashed
    /\ pc = "send"
    /\ idx > Len(devices)
    /\ closed' = TRUE
    /\ pc' = "collect"
    /\ idx' = 0
    /\ ret' = <<>>
    /\ UNCHANGED <<cfgVars, deviceCount, upc, logged, polled, active, ticker, jobs, results, infos, wk,
                   crashed, reg, px, cf>>

\* info := <-results; infos = append(infos, info)
PoolCollect ==
    /\ ~crashed
    /\ pc = "collect"
    /\ idx < Len(devices)
    /\ results # <<>>
    /\ infos' = Append(infos, Head(results))
    /\ results' = Tail(results)
    /\ idx' = idx + 1
    /\ ret' = <<>>
    /\ UNCHANGED <<cfgVars, deviceCount, pc, upc, logged, polled, active, ticker, jobs, closed, wk,
                   crashed, reg, px, cf>>

\* return infos
PoolReturn ==
    /\ ~crashed
    /\ pc = "collect"
    /\ idx >= Len(devices)
    /\ pc' = "sink"
    /\ idx' = 1
    /\ upc' = 0
    /\ ret' = <<>>
    /\ UNCHANGED <<cfgVars, deviceCount, logged, polled, active, ticker, poolVars, crashed, reg, px, cf>>

\* for _, info := range results { metrics.UpdateMetrics(info) }: one statement
UpdateMetricsStep ==
    /\ ~crashed
    /\ pc = "sink"
    /\ idx <= Len(infos)
    /\ reg' = UpdateMetricsStatement(reg, infos[idx], upc, deviceCount)
    /\ LET n == NextStatement(infos[idx], upc)
       IN  IF n = -1 THEN idx' = idx + 1 /\ upc' = 0
           ELSE upc' = n /\ UNCHANGED idx
    /\ ret' = <<>>
    /\ UNCHANGED <<cfgVars, deviceCount, pc, logged, polled, active, ticker, poolVars, crashed, px, cf>>

\* deviceCount := parser.GetAndResetDeviceCount(); slog.Debug(...); return
CycleEnd ==
    /\ ~crashed
    /\ pc = "sink"
    /\ idx > Len(infos)
    /\ logged' = GetAndResetDeviceCount(deviceCount).ret
    /\ deviceCount' = GetAndResetDeviceCount(deviceCount).val
    /\ active' = active - 1
    /\ pc' = "tick"
    /\ ret' = <<>>
    /\ UNCHANGED <<cfgVars, idx, upc, polled, ticker, poolVars, crashed, reg, px, cf>>

\* go func() { ticker := time.NewTicker(...) ... }(): main has made its first call
\* of updateMetrics and starts the goroutine of the loop
LoopStart ==
    /\ ~crashed
    /\ pc = "tick"
    /\ ~ticker.on
    /\ ticker' = [on |-> TRUE, C |-> 0]
    /\ ret' = <<>>
    /\ UNCHANGED <<cfgVars, deviceCount, pc, idx, upc, logged, polled, active, poolVars, crashed,
                   reg, px, cf>>

\* the interval has passed: the ticker puts a tick in ticker.C, whose buffer holds
\* one; a tick that finds the buffer full is dropped
TickerFire ==
    /\ ~crashed
    /\ ticker.on
    /\ ticker.C = 0
    /\ ticker' = [ticker EXCEPT !.C = 1]
    /\ ret' = <<>>
    /\ UNCHANGED <<cfgVars, deviceCount, pc, idx, upc, logged, polled, active, poolVars, crashed,
                   reg, px, cf>>

\* a loop that starts each call in a goroutine of its own: it is back at the
\* receive at once
LoopReadyAlways(p) == TRUE

\* the goroutine of the loop is at `for range ticker.C`: it calls updateMetrics
\* itself, so it is back at the receive only when the call has returned
LoopReady(p) == p = "tick"

\* for range ticker.C { updateMetrics(cfg.Devices, cfg) }: a tick is received.  The
\* run of the model ends when the next cycle would take the devices polled over
\* MaxPolled
Tick ==
    /\ ~crashed
    /\ LoopReady(pc)
    /\ ticker.on
    /\ ticker.C = 1
    /\ polled + Len(devices) <= MaxPolled
    /\ ticker' = [ticker EXCEPT !.C = 0]
    /\ pc' = "reset"
    /\ ret' = <<>>
    /\ UNCHANGED <<cfgVars, deviceCount, idx, upc, logged, polled, active, poolVars, crashed, reg,
                   px, cf>>

(***************************************************************************)
(* Device lists and the specifications of the program.                     *)
(***************************************************************************)
URLs == {"http://d1", "http://d2", "http://d3", "http://d4", ":bad"}

Prefixes(s) == {SubSeq(s, 1, n) : n \in 0..Len(s)}

\* distinct urls; a url configured twice; a url http.NewRequest rejects
DeviceLists ==
    {l \in Prefixes(<<Device("http://d1"), Device("http://d2"), Device("http://d3"),
                      Device("http://d4")>>)
             \cup Prefixes(<<Device("http://d1"), Device("http://d1"), Device(":bad"),
                             Device("http://d2")>>)
             \cup Prefixes(<<Device(":bad"), Device("http://d1"), Device("http://d2"),
                             Device("http://d1")>>) :
        Len(l) <= MaxDevices}

NoParse == [pc |-> "off", page |-> PageEmpty, k |-> 0, r |-> ParseStart(PageEmpty)]

\* the paths main may look at: a path given with -config, and the three fixed ones
FilePaths == {"/etc/supla/config.yaml", "config/config.yaml", "./config.yaml", "../config.yaml"}

\* a file is not there, holds a configuration LoadConfig rejects, or holds one it accepts
FileKinds == {"absent", "invalid", "valid"}

NoConfig ==
    [pc |-> "off", cli |-> "config/config.yaml", files |-> [f \in FilePaths |-> "absent"], i |-> 0,
     cfg |-> "", globalConfig |-> ""]

InitProgram ==
    /\ deviceCount = 0
    /\ pc = "reset"
    /\ idx = 0
    /\ upc = 0
    /\ logged = 0
    /\ polled = 0
    /\ active = 0
    /\ ticker = [on |-> FALSE, C |-> 0]
    /\ jobs = <<>>
    /\ closed = FALSE
    /\ results = <<>>
    /\ infos = <<>>
    /\ wk = EmptyBag
    /\ crashed = FALSE
    /\ reg = EmptyRegistry
    /\ ret = <<>>

\* the exporter on a device list, the devices answering from the narrow set
Init ==
    /\ devices \in DeviceLists
    /\ numWorkers \in 1..MaxWorkers
    /\ wide = FALSE
    /\ plain = FALSE
    /\ InitProgram
    /\ px = NoParse
    /\ cf = NoConfig

\* the exporter on one device and one worker, the device answering from the wide set
InitFetch ==
    /\ devices \in {<<Device(u)>> : u \in {"http://d1", ":bad"}}
    /\ numWorkers = 1
    /\ wide = TRUE
    /\ plain = FALSE
    /\ InitProgram
    /\ px = NoParse
    /\ cf = NoConfig

Next ==
    \/ CycleReset
    \/ PoolStart
    \/ PoolSend
    \/ PoolClose
    \/ PoolCollect
    \/ PoolReturn
    \/ UpdateMetricsStep
    \/ CycleEnd
    \/ LoopStart
    \/ TickerFire
    \/ Tick
    \/ WorkerRecv
    \/ WorkerExit
    \/ \E f \in BagToSet(wk) : FetchBegin(f)
    \/ \E f \in BagToSet(wk) : FetchRespond(f)
    \/ \E f \in BagToSet(wk) : FetchRetry(f)

Spec == Init /\ [][Next]_vars

SpecFetch == InitFetch /\ [][Next]_vars

(***************************************************************************)
(* One call of updateMetrics under fair scheduling.                        *)
(***************************************************************************)
\* the steps of the goroutine that calls updateMetrics
MainSteps ==
    \/ CycleReset
    \/ PoolStart
    \/ PoolSend
    \/ PoolClose
    \/ PoolCollect
    \/ PoolReturn
    \/ UpdateMetricsStep
    \/ CycleEnd

\* the steps of the workers; a fetch for the url u is left out: its client.Do
\* need not return
WorkerStepsBut(u) ==
    \/ WorkerRecv
    \/ WorkerExit
    \/ \E f \in BagToSet(wk) : FetchBegin(f)
    \/ \E f \in BagToSet(wk) : f.device.URL # u /\ FetchRespond(f)
    \/ \E f \in BagToSet(wk) : f.device.URL # u /\ FetchRetry(f)

\* the steps of the workers, every client.Do returning within its timeout
WorkerSteps == WorkerStepsBut("")

NextCycle ==
    \/ CycleReset
    \/ PoolStart
    \/ PoolSend
    \/ PoolClose
    \/ PoolCollect
    \/ PoolReturn
    \/ UpdateMetricsStep
    \/ CycleEnd
    \/ WorkerRecv
    \/ WorkerExit
    \/ \E f \in BagToSet(wk) : FetchBegin(f)
    \/ \E f \in BagToSet(wk) : FetchRespond(f)
    \/ \E f \in BagToSet(wk) : FetchRetry(f)

\* more workers than devices, as many, and fewer
InitCycle ==
    /\ devices \in DeviceLists
    /\ numWorkers \in 1..(MaxWorkers + 1)
    /\ wide = FALSE
    /\ plain = TRUE
    /\ InitProgram
    /\ px = NoParse
    /\ cf = NoConfig

\* the scheduler is fair to every goroutine and every fetch ends
SpecCycle == InitCycle /\ [][NextCycle]_vars /\ WF_vars(MainSteps) /\ WF_vars(WorkerSteps)

\* the device whose fetch stays outstanding
HungURL == "http://d1"

\* the hung device among devices of distinct urls, at any place of the list
HungLists ==
    {<<Device("http://d1")>>, <<Device("http://d1"), Device("http://d2")>>,
     <<Device("http://d2"), Device("http://d1")>>,
     <<Device("http://d1"), Device("http://d2"), Device("http://d3")>>,
     <<Device("http://d2"), Device("http://d1"), Device("http://d3")>>,
     <<Device("http://d2"), Device("http://d3"), Device("http://d1")>>,
     <<Device("http://d2"), Device("http://d3"), Device("http://d4"), Device("http://d1")>>}

InitHung ==
    /\ devices \in {l \in HungLists : Len(l) <= MaxDevices + 1}
    /\ numWorkers = 2
    /\ wide = FALSE
    /\ plain = TRUE
    /\ InitProgram
    /\ px = NoParse
    /\ cf = NoConfig

\* the scheduler is fair to every goroutine; the fetch of HungURL may stay outstanding
SpecHung == InitHung /\ [][NextCycle]_vars /\ WF_vars(MainSteps) /\ WF_vars(WorkerStepsBut(HungURL))

(***************************************************************************)
(* ParseHTML on its own, over the pages made of up to MaxSegs sections in  *)
(* any order.                                                              *)
(***************************************************************************)
Injective(s) == \A i, j \in 1..Len(s) : i # j => s[i] # s[j]

SpanLayouts ==
    {s \in UNION {[1..n -> SegNames] : n \in 0..MaxSegs} : Injective(s)}

\* the memory sections: "28.34kB", "15 KB", "512k", "n/a"
MemSegs == {"mem", "memspaced", "memshort", "memtext"}

\* pages with one memory block, with and without "Mode:" after it
MemPages ==
    {Page(<<"kitchen">>, <<<<m>>>>) : m \in MemSegs}
      \cup {Page(<<"kitchen">>, <<<<m, "mode">>>>) : m \in MemSegs}
      \cup {Page(<<"kitchen">>, <<<<"state", "firmware", "guid", "mac", m, "mode">>>>) : m \in MemSegs}

\* pages by their headings: none, one, one with white space around it, several
HeadingPages ==
    {Page(hs, spans) : hs \in {<<>>, <<"kitchen">>, <<"padded">>, <<"kitchen", "garage">>,
                                <<"padded", "garage">>},
                       spans \in {<<>>, <<FullSpan>>}}

\* pages whose span holds the four markers in their order, the memory block
\* before them, after them or in another span
OrderedPages ==
    {Page(<<"kitchen">>, <<head \o <<"state", f, "guid", "mac">> \o tail>>) :
        f \in {"firmware", "firmwareplain"}, head \in {<<>>, <<"mem">>},
        tail \in {<<>>, <<"mem", "mode">>}}

ParsePages ==
    {Page(<<"kitchen">>, <<s>>) : s \in SpanLayouts}
      \cup FetchPages
      \cup {Page(<<"kitchen">>, <<s, <<"mem", "mode">>>>) :
               s \in {t \in SpanLayouts : Len(t) <= 2}}
      \cup MemPages \cup HeadingPages \cup OrderedPages

InitParse ==
    /\ devices = <<>>
    /\ numWorkers = 1
    /\ wide = FALSE
    /\ plain = FALSE
    /\ InitProgram
    /\ px \in {[pc |-> "call", page |-> p, k |-> 0, r |-> ParseStart(PageEmpty)] : p \in ParsePages}
    /\ cf = NoConfig

\* doc, err := goquery.NewDocumentFromReader(...); info.Name = doc.Find("h1").Text()
ParseBegin ==
    /\ px.pc = "call"
    /\ px' = [px EXCEPT !.pc = "each", !.k = 1, !.r = ParseStart(px.page)]
    /\ UNCHANGED <<cfgVars, deviceCount, mainVars, poolVars, crashed, reg, ret, cf>>

\* the callback of Each on the next span; a panic unwinds ParseHTML
ParseEach ==
    /\ px.pc = "each"
    /\ px.k <= Len(px.page.spans)
    /\ LET r == EachSpan(px.r, px.page.spans[px.k])
       IN  px' = [px EXCEPT !.r = r, !.k = px.k + 1, !.pc = IF r.panic THEN "panic" ELSE "each"]
    /\ UNCHANGED <<cfgVars, deviceCount, mainVars, poolVars, crashed, reg, ret, cf>>

\* return info, nil
ParseReturn ==
    /\ px.pc = "each"
    /\ px.k > Len(px.page.spans)
    /\ px' = [px EXCEPT !.pc = "ret"]
    /\ UNCHANGED <<cfgVars, deviceCount, mainVars, poolVars, crashed, reg, ret, cf>>

NextParse == ParseBegin \/ ParseEach \/ ParseReturn

SpecParse == InitParse /\ [][NextParse]_vars

(***************************************************************************)
(* The sink over cycles whose batches differ: updateMetrics with the pool  *)
(* taken as one step that returns a record for every device.               *)
(***************************************************************************)
\* a device page under another name, with another firmware and no memory block
PageGarage == Page(<<"garage">>, <<<<"state", "firmwareplain", "guid", "mac">>>>)

\* the pages a device may answer with from one cycle to the next
SinkPages == {PageFull, PageGarage, PageBare, PageEmpty}

\* the records FetchAndParse returns for the device: up with one of the pages,
\* down after a transport failure, down after a 503
SinkRecords(device) ==
    {UpRecord(device, ParseHTML(p).info) : p \in SinkPages}
      \cup {TransportRecord(device), StatusSwitch(device, 503)[1]}

\* the batches FetchAndParseWithPool may return: one record for every device
SinkBatches ==
    {b \in UNION {[1..n -> UNION {SinkRecords(devices[i]) : i \in 1..Len(devices)}] :
                     n \in {Len(devices)}} :
        \A i \in 1..Len(devices) : b[i] \in SinkRecords(devices[i])}

\* parser.GetAndResetDeviceCount(); results := parser.FetchAndParseWithPool(devices,
\* numWorkers): the counter is reset, every device is fetched once, the batch is back
PoolBatch ==
    /\ ~crashed
    /\ pc = "reset"
    /\ \E b \in SinkBatches : infos' = b
    /\ deviceCount' = AtomicAddInt64(GetAndResetDeviceCount(deviceCount).val, Len(devices))
    /\ active' = active + 1
    /\ polled' = polled + Len(devices)
    /\ pc' = "sink"
    /\ idx' = 1
    /\ upc' = 0
    /\ ret' = <<>>
    /\ UNCHANGED <<cfgVars, logged, ticker, jobs, closed, results, wk, crashed, reg, px, cf>>

\* http.ListenAndServe(addr, nil): main serves /metrics once it has made its first
\* call of updateMetrics and started the goroutine of the loop; a scrape reads
\* the registry between any two statements of the cycles that follow
Serving == ticker.on

\* one device, two devices, and a url configured twice
InitSink ==
    /\ devices \in {l \in Prefixes(<<Device("http://d1"), Device("http://d2"), Device("http://d3")>>)
                        \cup {<<Device("http://d1"), Device("http://d1")>>} :
                     Len(l) \in 1..MaxDevices}
    /\ numWorkers = 1
    /\ wide = FALSE
    /\ plain = FALSE
    /\ InitProgram
    /\ px = NoParse
    /\ cf = NoConfig

NextSink ==
    \/ PoolBatch
    \/ UpdateMetricsStep
    \/ CycleEnd
    \/ LoopStart
    \/ TickerFire
    \/ Tick

SpecSink == InitSink /\ [][NextSink]_vars

(***************************************************************************)
(* main's search for its configuration.  A configuration is named by the   *)
(* path of the file it was loaded from; "" is the nil *Config.             *)
(***************************************************************************)
\* configPaths := []string{*configFile, "config/config.yaml", "./config.yaml", "../config.yaml"}
ConfigPaths(cli) == <<cli, "config/config.yaml", "./config.yaml", "../config.yaml">>

\* os.Stat(path) returns an error
StatFails(files, path) == files[path] = "absent"

\* config.LoadConfig(path): the file is read, parsed and validated
LoadConfig(files, path) ==
    IF files[path] = "valid" THEN [err |-> FALSE, cfg |-> path] ELSE [err |-> TRUE, cfg |-> ""]

InitConfig ==
    /\ devices = <<>>
    /\ numWorkers = 1
    /\ wide = FALSE
    /\ plain = FALSE
    /\ InitProgram
    /\ px = NoParse
    /\ cf \in {[pc |-> "loop", cli |-> c, files |-> fs, i |-> 1, cfg |-> "", globalConfig |-> ""] :
                 c \in {"/etc/supla/config.yaml", "config/config.yaml"},
                 fs \in [FilePaths -> FileKinds]}

\* one round of `for _, path := range configPaths`: the file is not accessible and
\* the loop goes on, LoadConfig fails and the process exits, or the configuration
\* is taken and set; the loop goes on in this case too
ConfigPath ==
    /\ cf.pc = "loop"
    /\ cf.i <= Len(ConfigPaths(cf.cli))
    /\ LET path   == ConfigPaths(cf.cli)[cf.i]
           loaded == LoadConfig(cf.files, path)
       IN  cf' = IF StatFails(cf.files, path) THEN [cf EXCEPT !.i = @ + 1]
                 ELSE IF loaded.err THEN [cf EXCEPT !.pc = "exit"]
                 ELSE [cf EXCEPT !.cfg = loaded.cfg, !.globalConfig = loaded.cfg, !.i = @ + 1]
    /\ UNCHANGED <<cfgVars, deviceCount, mainVars, poolVars, crashed, reg, ret, px>>

\* logLevel := getLogLevel(cfg.Global.LogLevel): with no file found cfg is nil and
\* the read of cfg.Global panics; otherwise the exporter runs with cfg
ConfigLoaded ==
    /\ cf.pc = "loop"
    /\ cf.i > Len(ConfigPaths(cf.cli))
    /\ cf' = [cf EXCEPT !.pc = IF cf.cfg = "" THEN "panic" ELSE "run"]
    /\ UNCHANGED <<cfgVars, deviceCount, mainVars, poolVars, crashed, reg, ret, px>>

NextConfig == ConfigPath \/ ConfigLoaded

SpecConfig == InitConfig /\ [][NextConfig]_vars

(***************************************************************************)
(* Properties.                                                             *)
(***************************************************************************)
\* the entries of a sequence of devices or records that carry the url u
CountURL(seq, u) == Cardinality({i \in 1..Len(seq) : seq[i].URL = u})

\* the goroutines, counted, whose frame satisfies P
Goroutines(P(_)) == BagCardinality([f \in {g \in BagToSet(wk) : P(g)} |-> wk[f]])

\* the devices handed to the jobs channel so far in this cycle
Dispatched == IF pc = "send" THEN SubSeq(devices, 1, idx - 1) ELSE devices

\* whether a span of the page holds the marker
PageHas(page, marker) ==
    \E k \in 1..Len(page.spans) : Contains(SpanText(page.spans[k]), marker)

\* a worker's round has just ended with a record
Returned == ret # <<>>

\* the answer whose body ParseHTML was given in the round a, if one was
ParsedAnswer(a) ==
    IF a.resp2 # <<>>
    THEN (IF ~a.resp2[1].fail /\ a.resp2[1].read = "ok" THEN a.resp2 ELSE <<>>)
    ELSE IF a.resp1 # <<>> /\ ~a.resp1[1].fail /\ a.resp1[1].status = 200
            /\ a.resp1[1].read = "ok"
    THEN a.resp1
    ELSE <<>>

\* C1: FetchAndParseWithPool returns exactly one record per target, the urls of the
\* records being the urls of the targets as multisets: while the pool runs every
\* dispatched target is in the job queue, with one worker, or in one record, a
\* worker that took a target emits its record, and the slice returned holds N records.
C1_OneRecordPerTarget ==
    /\ pc \in {"send", "collect"} =>
          \A u \in URLs :
             CountURL(jobs, u) + Goroutines(LAMBDA f : f.pc \in {"call", "do", "retry"} /\ f.device.URL = u)
                + CountURL(results, u) + CountURL(infos, u) = CountURL(Dispatched, u)
    /\ pc \in {"sink", "tick"} =>
          /\ Len(infos) = Len(devices)
          /\ \A u \in URLs : CountURL(infos, u) = CountURL(devices, u)
    /\ At("panic") = {}

\* the part of C1 that the code keeps: no target is duplicated, and none is dropped
\* by a pool that returns
C1_NoDuplicateNoDropOnReturn ==
    /\ pc \in {"send", "collect"} =>
          \A u \in URLs :
             CountURL(jobs, u)
                + Goroutines(LAMBDA f : f.pc \in {"call", "do", "retry", "panic"} /\ f.device.URL = u)
                + CountURL(results, u) + CountURL(infos, u) = CountURL(Dispatched, u)
    /\ pc \in {"sink", "tick"} =>
          /\ Len(infos) = Len(devices)
          /\ \A u \in URLs : CountURL(infos, u) = CountURL(devices, u)

\* a stage of the round a failed: the request could not be made, a client.Do
\* failed, the first answer was not a 200, or a body could not be read
StageFailed(a) ==
    \/ NewRequestError(a.device) # ""
    \/ a.resp1 # <<>> /\ (a.resp1[1].fail \/ a.resp1[1].status # 200 \/ a.resp1[1].read = "err")
    \/ a.resp2 # <<>> /\ (a.resp2[1].fail \/ a.resp2[1].read # "ok")

\* C2: no failure of one device at any stage aborts the cycle or stops a worker:
\* the process never dies, the device that failed gets a record with up=false and
\* its worker is back waiting for the next job.
C2_FailureStaysWithItsDevice ==
    /\ ~crashed
    /\ Returned /\ StageFailed(ret[1]) => ~ret[1].out[1].Up /\ BagIn(Waiting, wk)

\* C3: a record has up=true only if every answer received in the round, the first
\* and the second request's, had status 200 and the body read and extraction succeeded.
C3_UpOnlyOn200 ==
    Returned /\ ret[1].out[1].Up =>
       /\ ParsedAnswer(ret[1]) # <<>>
       /\ ret[1].resp1 # <<>> /\ ~ret[1].resp1[1].fail /\ ret[1].resp1[1].status = 200
       /\ ret[1].resp2 # <<>> => ~ret[1].resp2[1].fail /\ ret[1].resp2[1].status = 200

\* the part of C3 that the code keeps: up=true needs a first answer of status 200
\* and a body that was read and extracted
C3_UpOnlyOnFirst200 ==
    Returned /\ ret[1].out[1].Up =>
       /\ ParsedAnswer(ret[1]) # <<>>
       /\ ret[1].resp1 # <<>> /\ ~ret[1].resp1[1].fail /\ ret[1].resp1[1].status = 200

\* C4: every call of FetchAndParse increments deviceCount exactly once whatever its
\* outcome and no increment is lost: during a cycle the counter is the number of
\* calls that have passed the increment (those still running and those that have
\* sent their record), and it never exceeds the number of targets.
C4_CounterCountsAttempts ==
    /\ pc \in {"send", "collect", "sink"} =>
          deviceCount = Goroutines(LAMBDA f : f.pc \in {"do", "retry", "panic"})
                           + Len(results) + Len(infos)
    /\ deviceCount <= Len(devices)

\* two calls of FetchAndParse are running at once, both past the increment
C4_Witness ==
    /\ deviceCount = 2
    /\ Goroutines(LAMBDA f : f.pc \in {"do", "retry"}) = 2

\* C5: the counter is 0 when the cycle hands out its first target and until the
\* first attempt; the GetAndResetDeviceCount that ends a cycle over N targets
\* returns N and leaves 0, and GetDeviceCount returns 0 from then until the next
\* cycle's first attempt.
C5_CounterAroundCycle ==
    /\ pc = "tick" => logged = Len(devices)
    /\ pc \in {"tick", "spawn"} => GetDeviceCount(deviceCount) = 0
    /\ polled > 0 /\ pc = "reset" => GetDeviceCount(deviceCount) = 0
    /\ pc \in {"send", "collect"} /\ At("do") \cup At("retry") \cup At("panic") = {}
          /\ results = <<>> /\ infos = <<>> => GetDeviceCount(deviceCount) = 0

\* the second cycle over two targets has ended
C5_Witness == pc = "tick" /\ logged = 2 /\ polled = 4 /\ deviceCount = 0

\* C6: every record a worker emits carries the url of the target the worker took,
\* on every path; every record in the result queue and in the batch carries the
\* url of a target.
C6_RecordCarriesTargetURL ==
    /\ Returned => ret[1].out[1].URL = ret[1].device.URL
    /\ \A i \in 1..Len(results) : \E j \in 1..Len(devices) : results[i].URL = devices[j].URL
    /\ \A i \in 1..Len(infos) : \E j \in 1..Len(devices) : infos[i].URL = devices[j].URL

\* a record of a page read at the second request
C6_Witness ==
    /\ Returned /\ ret[1].reqs = 2 /\ ret[1].out[1].Up
    /\ ret[1].out[1].URL = "http://d1"

\* the state the specification gives for a status other than 200
SpecState(status) ==
    CASE status = 401 -> "Unauthorized - check credentials"
      [] status = 403 -> "Forbidden - access denied"
      [] status = 404 -> "Not found - check URL"
      [] status = 500 -> "Internal server error"
      [] status = 503 -> "HTTP error 503"

\* C7: the status of the first answer alone decides the failure record: 401, 403,
\* 404 and 500 give up=false and their own state, any other status but 200 gives
\* up=false, name = url and state "HTTP error <code>"; no body is read and no
\* second request is made in these cases, and a body is read only after a 200.
C7_StatusDecidesRecord ==
    /\ Returned /\ ret[1].resp1 # <<>> /\ ~ret[1].resp1[1].fail /\ ret[1].resp1[1].status # 200 =>
          /\ ret[1].out[1] =
                [Name |-> IF ret[1].resp1[1].status \in {401, 403, 404, 500}
                          THEN "" ELSE ret[1].device.URL,
                 State |-> SpecState(ret[1].resp1[1].status),
                 Firmware |-> "", GUID |-> "", MAC |-> "", Mode |-> "",
                 FreeMem |-> Float(0, 0), Up |-> FALSE, URL |-> ret[1].device.URL]
          /\ ret[1].reads = 0
          /\ ret[1].reqs = 1
    /\ Returned /\ ret[1].reads > 0 => ~ret[1].resp1[1].fail /\ ret[1].resp1[1].status = 200
    /\ \A f \in At("retry") \cup At("panic") : ~f.resp1[1].fail /\ f.resp1[1].status = 200

\* a 503, with a body that would have parsed, gives the generic record
C7_Witness ==
    /\ Returned /\ ret[1].resp1 = <<Resp(503, "ok", PageFull)>>
    /\ ret[1].out[1].State = "HTTP error 503" /\ ret[1].out[1].Name = "http://d1"

\* C8: a round makes at most two requests; the second is made only after a first
\* answer of status 200 whose body read failed with malformed chunked encoding; a
\* failed second request, a failed second read, or a first read failing otherwise
\* ends the round with up=false, state "Timeout", mode "ERROR".
C8_AtMostOneRetry ==
    /\ \A f \in BagToSet(wk) :
          /\ f.reqs <= 2
          /\ f.reqs = 2 => f.resp1 = <<Resp(200, "chunked", PageEmpty)>>
    /\ Returned =>
          /\ ret[1].reqs <= 2
          /\ ret[1].reqs = 2 <=> ret[1].resp2 # <<>>
          /\ ret[1].reqs = 2 =>
                ~ret[1].resp1[1].fail /\ ret[1].resp1[1].status = 200
                   /\ ret[1].resp1[1].read = "chunked"
          /\ \/ ret[1].resp2 # <<>> /\ (ret[1].resp2[1].fail \/ ret[1].resp2[1].read # "ok")
             \/ ret[1].resp1 # <<>> /\ ~ret[1].resp1[1].fail /\ ret[1].resp1[1].status = 200
                   /\ ret[1].resp1[1].read = "err"
             => ret[1].out[1] =
                   [Name |-> "", State |-> "Timeout", Firmware |-> "", GUID |-> "", MAC |-> "",
                    Mode |-> "ERROR", FreeMem |-> Float(0, 0), Up |-> FALSE,
                    URL |-> ret[1].device.URL]

\* the second request failed
C8_Witness ==
    /\ Returned /\ ret[1].reqs = 2 /\ ret[1].resp2 = <<TransportFailure>>
    /\ ret[1].out[1].State = "Timeout"

\* C9: ParseHTML is total over marker layouts: it never aborts and returns no
\* error, and the fields of the sections that are missing are empty or zero.
C9_ParseTotal ==
    /\ px.pc # "panic"
    /\ px.pc = "ret" =>
          /\ ~px.r.err
          /\ ~PageHas(px.page, MarkLastState) => px.r.info.State = ""
          /\ ~PageHas(px.page, MarkFirmware) => px.r.info.Firmware = ""
          /\ ~PageHas(px.page, MarkGUID) => px.r.info.GUID = ""
          /\ ~PageHas(px.page, MarkMAC) => px.r.info.MAC = ""
          /\ ~PageHas(px.page, MarkFreeMem) => px.r.info.FreeMem = Float(0, 0)
          /\ ~PageHas(px.page, MarkMode) => px.r.info.Mode = ""

\* the part of C9 that the code keeps: ParseHTML aborts only on a span that holds
\* "LAST STATE:" without "Firmware:" or without "GUID:"
C9_PanicOnlyOnBrokenStateBlock ==
    px.pc = "panic" =>
       \E k \in 1..Len(px.page.spans) :
          /\ Contains(SpanText(px.page.spans[k]), MarkLastState)
          /\ \/ ~Contains(SpanText(px.page.spans[k]), MarkFirmware)
             \/ ~Contains(SpanText(px.page.spans[k]), MarkGUID)

\* C10: a page with no "LAST STATE:" gives state, firmware, guid and mac empty and
\* no error, a page with no "Free Mem:" gives freeMemKB 0 and mode empty and no
\* error, and the record of a 200 answer with such a page has up=true.
C10_MissingBlocksStayEmpty ==
    /\ Returned /\ ParsedAnswer(ret[1]) # <<>> =>
          LET page == ParsedAnswer(ret[1])[1].page
              info == ret[1].out[1]
          IN  /\ ~PageHas(page, MarkLastState) =>
                    info.State = "" /\ info.Firmware = "" /\ info.GUID = "" /\ info.MAC = ""
              /\ ~PageHas(page, MarkFreeMem) => info.FreeMem = Float(0, 0) /\ info.Mode = ""
              /\ ParsedAnswer(ret[1])[1].status = 200 => info.Up
    /\ \A f \in At("panic") :
          LET page == IF f.resp2 # <<>> THEN f.resp2[1].page ELSE f.resp1[1].page
          IN  PageHas(page, MarkLastState) /\ PageHas(page, MarkFreeMem)

\* the part of C10 that the code keeps: a page with no "LAST STATE:" never fails,
\* and whenever ParseHTML returns the missing blocks are empty and up is true
C10_MissingStateBlockIsNoError ==
    /\ Returned /\ ParsedAnswer(ret[1]) # <<>> =>
          LET page == ParsedAnswer(ret[1])[1].page
              info == ret[1].out[1]
          IN  /\ ~PageHas(page, MarkLastState) =>
                    info.State = "" /\ info.Firmware = "" /\ info.GUID = "" /\ info.MAC = ""
              /\ ~PageHas(page, MarkFreeMem) => info.FreeMem = Float(0, 0) /\ info.Mode = ""
              /\ info.Up
    /\ \A f \in At("panic") :
          LET page == IF f.resp2 # <<>> THEN f.resp2[1].page ELSE f.resp1[1].page
          IN  PageHas(page, MarkLastState)

\* the memory section of a page of MemPages
MemSegOf(page) ==
    CHOOSE m \in MemSegs : \E k \in 1..Len(page.spans) : \E j \in 1..Len(page.spans[k]) :
                               page.spans[k][j] = m

\* the kilobytes the specification reads from a memory section
SpecFreeMem(m) ==
    CASE m = "mem" -> Float(2834, 2)
      [] m = "memspaced" -> Float(15, 0)
      [] m = "memtext" -> Float(0, 0)

\* C11: the text after "Free Mem:", trimmed and with its "kb" suffix removed, is
\* read as a decimal number: "28.34kB" gives 28.34, "15 KB" gives 15, and a text
\* that is no number leaves freeMemKB at 0 without failing the record.
C11_MemoryParsed ==
    /\ px.page \in MemPages => px.pc # "panic"
    /\ px.pc = "ret" /\ px.page \in MemPages /\ MemSegOf(px.page) # "memshort" =>
          /\ ~px.r.err
          /\ px.r.info.FreeMem = SpecFreeMem(MemSegOf(px.page))

\* the part of C11 that the code keeps: every memory text but the one with a space
\* before its suffix
C11_MemoryParsedUnspaced ==
    /\ px.page \in MemPages => px.pc # "panic"
    /\ px.pc = "ret" /\ px.page \in MemPages /\ MemSegOf(px.page) \in {"mem", "memtext"} =>
          /\ ~px.r.err
          /\ px.r.info.FreeMem = SpecFreeMem(MemSegOf(px.page))

\* C12: the name is the trimmed text of the first h1 element only, and is empty
\* when the page has no h1.
C12_NameIsFirstHeadingTrimmed ==
    px.pc = "ret" =>
       px.r.info.Name = IF px.page.h1 = <<>> THEN ""
                        ELSE Join(TrimSpace(HeadingText(px.page.h1[1])))

\* the part of C12 that the code keeps: a page with at most one h1, whose text has
\* no white space around it, gives that text
C12_NameOfSinglePlainHeading ==
    px.pc = "ret" /\ px.page.h1 \in {<<>>, <<"kitchen">>} =>
       px.r.info.Name = IF px.page.h1 = <<>> THEN "" ELSE "Kitchen"

\* C13: for a span holding LAST STATE:, Firmware:, GUID:, MAC: in this order,
\* state, firmware and guid are the trimmed texts between their marker and the
\* next, the firmware cut to start at its first "v<digit>" when it has one.
C13_OrderedSections ==
    px.page \in OrderedPages =>
       /\ px.pc # "panic"
       /\ px.pc = "ret" =>
             /\ ~px.r.err
             /\ px.r.info.State = "Ready"
             /\ px.r.info.Firmware =
                   IF \E j \in 1..Len(px.page.spans[1]) : px.page.spans[1][j] = "firmware"
                   THEN "v1.2.3" ELSE "2.0-beta"
             /\ px.r.info.GUID = "ABC123"

\* "GG v1.2.3" has been cut to "v1.2.3"
C13_Witness ==
    /\ px.pc = "ret"
    /\ px.page = Page(<<"kitchen">>, <<<<"state", "firmware", "guid", "mac">>>>)
    /\ px.r.info.Firmware = "v1.2.3"

\* C16: when the file given with -config is there and loads, the exporter runs
\* with the configuration loaded from it, whichever of the fallback files exist.
C16_CommandLineFileWins ==
    cf.pc = "run" /\ cf.files[cf.cli] = "valid" =>
       cf.cfg = cf.cli /\ cf.globalConfig = cf.cli

\* what the code does: the exporter runs with the last accessible file of the list
C16_LastAccessibleFileWins ==
    cf.pc = "run" =>
       LET paths == ConfigPaths(cf.cli)
           last  == CHOOSE i \in 1..Len(paths) :
                       /\ cf.files[paths[i]] # "absent"
                       /\ \A j \in (i + 1)..Len(paths) : cf.files[paths[j]] = "absent"
       IN  cf.cfg = paths[last] /\ cf.globalConfig = paths[last]

\* the configured devices have distinct urls
DistinctURLs == \A i, j \in 1..Len(devices) : i # j => devices[i].URL # devices[j].URL

\* the samples of supla_device_up for the url u
UpSamples(u) == {x \in reg.up : x[1] = <<u>>}

\* C14: the sink is given one record for every configured target, down and error
\* devices included: after a completed cycle over devices of distinct urls,
\* supla_device_up has for every configured url the one sample 1 if the cycle's
\* record of the url is up and 0 if it is not, and no sample for another url.
C14_UpSampleForEveryTarget ==
    pc = "tick" /\ DistinctURLs =>
       /\ Len(infos) = Len(devices)
       /\ \A i \in 1..Len(devices) :
             \E j \in 1..Len(infos) :
                /\ infos[j].URL = devices[i].URL
                /\ UpSamples(devices[i].URL) =
                      {<<<<devices[i].URL>>, IF infos[j].Up THEN 1 ELSE 0>>}
       /\ \A x \in reg.up : \E i \in 1..Len(devices) : x[1] = <<devices[i].URL>>

\* the second cycle has ended with one device down and the other up
C14_Witness ==
    /\ pc = "tick" /\ polled = 4
    /\ reg.up = {<<<<"http://d1">>, 0>>, <<<<"http://d2">>, 1>>}

\* C15: after every completed cycle over N devices supla_device_count is N,
\* whatever the mix of up and down devices.
C15_CountGaugeIsN == pc = "tick" => reg.count = Len(devices)

\* the part of C15 that the code keeps: the gauge is N after a cycle in which a
\* device was up
C15_CountGaugeIsNAfterAnUp ==
    pc = "tick" /\ (\E i \in 1..Len(infos) : infos[i].Up) => reg.count = Len(devices)

\* the states FetchAndParse and the worker give as the reason of a down record
ReasonStates(device) ==
    {"", "Timeout", "Unauthorized - check credentials", "Forbidden - access denied",
     "Not found - check URL", "Internal server error", "HTTP error 503",
     "Error: error creating request: parse \"" \o device.URL \o "\": missing protocol scheme"}

\* C17: a record with up=false has freeMemKB 0 and no value of the device page:
\* firmware, guid and mac are empty, the state is empty or a reason, the mode is
\* empty or "ERROR", and the name is empty, or the url after an unlisted status.
C17_DownRecordHoldsNoDeviceValue ==
    Returned /\ ~ret[1].out[1].Up =>
       LET o == ret[1].out[1]
       IN  /\ o.FreeMem = Float(0, 0)
           /\ o.Firmware = "" /\ o.GUID = "" /\ o.MAC = ""
           /\ o.State \in ReasonStates(ret[1].device)
           /\ o.Mode \in {"", "ERROR"}
           /\ o.Name \in {"", ret[1].device.URL}
           /\ o.Name # "" =>
                 ret[1].resp1[1].status \notin {200, 401, 403, 404, 500}

\* the body of a 200 answer could not be read
C17_Witness ==
    /\ Returned /\ ret[1].resp1 = <<Resp(200, "err", PageEmpty)>>
    /\ ~ret[1].out[1].Up /\ ret[1].out[1].Mode = "ERROR"

\* C18: at most one call of updateMetrics is in progress at any time: a call
\* starts only when none is in progress, a tick that arrives during a call waits.
C18_OneCycleAtATime ==
    /\ active <= 1
    /\ pc \in {"spawn", "send", "collect", "sink"} => active = 1
    /\ pc = "reset" => active = 0

\* a tick waits in ticker.C while the second cycle writes to the sink
C18_Witness ==
    /\ active = 1 /\ pc = "sink" /\ ticker.C = 1
    /\ polled > Len(devices)

\* C19: under fair scheduling, every fetch ending, the cycle returns its batch and
\* every worker terminates, for fewer, as many and more workers than targets; no
\* send finds the buffer of its channel full.
C19_CycleReturnsWorkersExit ==
    /\ [](Len(jobs) <= Len(devices) /\ Len(results) <= Len(devices))
    /\ (pc = "spawn") ~> (pc = "sink")
    /\ (pc = "sink") ~> (wk = EmptyBag)

\* three workers for one device have all returned after the cycle
C19_Witness ==
    /\ pc = "tick" /\ wk = EmptyBag
    /\ Len(devices) = 1 /\ numWorkers = 3 /\ Len(infos) = 1

\* the records of the devices other than the hung one are all in the batch
OthersCollected ==
    \A i \in 1..Len(devices) :
       devices[i].URL # HungURL => CountURL(infos, devices[i].URL) = 1

\* C20: with two workers or more and the fetch of one device outstanding, the
\* other workers keep taking jobs: the records of all other targets are emitted
\* and collected without the hung fetch ending.
C20_HungFetchBlocksNoOther ==
    (pc = "spawn") ~> OthersCollected

\* the fetch of the hung device is outstanding and the two others are collected
C20_Witness ==
    /\ pc = "collect" /\ Len(devices) = 3 /\ Len(infos) = 2
    /\ \E f \in At("do") : f.device.URL = HungURL
    /\ OthersCollected

\* the series of a vector that carry the url u
SeriesOf(vec, u) == {x \in vec : x[1][1] = u}

\* C21: for every url each of supla_device_info, _state, _network, _firmware and
\* _memory_free_bytes holds at most one series, whatever the records of the cycles
\* so far: a new name, state, mac or firmware never stands next to the old one.
C21_AtMostOneSeriesPerURL ==
    \A u \in URLs :
       /\ Cardinality(SeriesOf(reg.info, u)) <= 1
       /\ Cardinality(SeriesOf(reg.state, u)) <= 1
       /\ Cardinality(SeriesOf(reg.network, u)) <= 1
       /\ Cardinality(SeriesOf(reg.firmware, u)) <= 1
       /\ Cardinality(SeriesOf(reg.memory, u)) <= 1

\* UpdateMetrics is at work on a record named "Garage" for a url whose series of
\* the cycle before are named "Kitchen"
C21_Witness ==
    /\ pc = "sink" /\ idx = 1 /\ upc = 1
    /\ infos[1].Up /\ infos[1].URL = "http://d1" /\ infos[1].Name = "Garage"
    /\ <<<<"http://d1", "Kitchen">>, 1>> \in reg.info
    /\ <<<<"http://d1", "v1.2.3", "Kitchen">>, 1>> \in reg.firmware

\* C22: UpdateMetrics with a record that is down sets supla_device_up of its url
\* to 0 and returns: every other series of the url and of the other urls, and
\* supla_device_count, stay as they were.
C22_DownRecordTouchesOnlyUp ==
    [][(pc = "sink" /\ idx <= Len(infos) /\ ~infos[idx].Up /\ <<idx, upc>>' # <<idx, upc>>) =>
          /\ idx' = idx + 1 /\ upc' = 0
          /\ reg' = [reg EXCEPT !.up = {x \in @ : x[1] # <<infos[idx].URL>>}
                                         \cup {<<<<infos[idx].URL>>, 0>>}]]_vars

\* a url is down and keeps the series and the memory of its last up cycle
C22_Witness ==
    /\ <<<<"http://d1">>, 0>> \in reg.up
    /\ <<<<"http://d1", "Kitchen">>, 1>> \in reg.info
    /\ SeriesOf(reg.memory, "http://d1") # {}
    /\ reg.count = 1

\* every url that is up has one series in each of the four label families
WholeDevices ==
    \A u \in URLs :
       <<<<u>>, 1>> \in reg.up =>
          /\ Cardinality(SeriesOf(reg.info, u)) = 1
          /\ Cardinality(SeriesOf(reg.state, u)) = 1
          /\ Cardinality(SeriesOf(reg.network, u)) = 1
          /\ Cardinality(SeriesOf(reg.firmware, u)) = 1

\* C23: in every state a scrape of /metrics can observe, every url whose
\* supla_device_up is 1 has exactly one series in each of supla_device_info,
\* _state, _network and _firmware.
C23_ScrapeSeesWholeDevices == Serving => WholeDevices

\* the part of C23 that the code keeps: between two cycles every up url is whole
C23_WholeBetweenCycles == pc = "tick" => WholeDevices

====
